---- MODULE Spec2Model ----
(***************************************************************************)
(* NoteVault backend: the user, category and note tables and the request   *)
(* handlers of myapp/views.py over them.                                   *)
(*                                                                         *)
(* The specifications share the handlers' store operators:                 *)
(*   Spec      the handlers that change the category and note tables, each *)
(*             run to completion, one request at a time;                   *)
(*   ReadSpec  the handlers that list and search notes, over stores built  *)
(*             by the creating handlers and update_note;                   *)
(*   ConcSpec  the handlers of the category and note tables run query by   *)
(*             query in NumWorkers request workers that interleave;        *)
(*   AuthSpec  the handlers of the user table (register, login, profile,   *)
(*             password resets), one request at a time;                    *)
(*   NoteSpec, CategorySpec, ListSpec                                      *)
(*             the handlers of single notes, of categories and of the note *)
(*             listings, asked for rows that are the caller's, another     *)
(*             user's or absent;                                           *)
(*   OwnerSpec, DefaultsSpec, ProfileSpec                                  *)
(*             update and create requests whose bodies carry a user key,   *)
(*             leave out optional keys, or carry empty values;             *)
(*   AnonSpec  requests that carry no access token.                        *)
(***************************************************************************)
EXTENDS Integers, Sequences, FiniteSets, TLC

\* ------------------------------------------------------------- bounds
MaxRows == 4            \* category and note rows created in one behaviour
MaxUsers == 2           \* users registered in one behaviour (AuthSpec)
NumWorkers == 2         \* request workers that interleave (ConcSpec)
MaxConcRows == 2        \* rows after which ConcSpec takes no creating request

\* ------------------------------------------------------------- values
\* A value that may be missing is a set with no or one element: {} is a key
\* absent from the request (Python None from data.get) or a NULL column.
Absent == {}
Some(v) == {v}
Val(o) == CHOOSE v \in o : TRUE

\* Strings are sequences of characters, so that lower-casing and substring
\* search are computed and not assumed.
Lower(c) == CASE c = "A" -> "a" [] c = "B" -> "b" [] OTHER -> c
LowerStr(s) == [i \in 1..Len(s) |-> Lower(s[i])]
Contains(hay, needle) ==
    \E i \in 1..(Len(hay) - Len(needle) + 1) :
        SubSeq(hay, i, i + Len(needle) - 1) = needle
\* a slip: the lookup compares the letters as they are written
IContains_CaseSensitive(hay, needle) == Contains(hay, needle)
\* the ORM's __icontains lookup
IContains(hay, needle) == Contains(LowerStr(hay), LowerStr(needle))

\* Python truthiness of a request value: None and "" are falsy
FalsyStr(o) == o = Absent \/ Val(o) = <<>>
\* None and 0 are falsy; primary keys start at 1
FalsyId(o) == o = Absent \/ Val(o) = 0

VARIABLES
    users,        \* auth_user rows
    categories,   \* myapp_category rows
    notes,        \* myapp_note rows
    nextId,       \* the tables' auto-increment counters
    last,         \* the last request answered and its response
    slots         \* ConcSpec: the request each worker is running

vars == <<users, categories, notes, nextId, last, slots>>

\* ------------------------------------------------------------- domains
\* the titles and the search strings the requests carry: B occurs in the
\* title Ab only when case is ignored, ba in neither title
TitleA == <<"a">>
TitleB == <<"A", "b">>
Queries == {<<"a">>, <<"B">>, <<"b", "a">>}

\* what a request may carry under q: nothing, "" or a search string
ReqQueries == {Absent, Some(<<>>)} \cup {Some(q) : q \in Queries}

\* ------------------------------------------------------------- the ORM
\* a slip: the user filter left out of the lookup
CategoryGetOwned_AnyUser(cats, id, u) == {c \in cats : c.id = id}
\* Category.objects.get(id=category_id, user=request.user): the matching rows,
\* {} when the lookup raises Category.DoesNotExist
CategoryGetOwned(cats, id, u) == {c \in cats : c.id = id /\ c.user = u}
\* Category.objects.get(id=category_id)
CategoryGetAny(cats, id) == {c \in cats : c.id = id}
\* a slip: the user filter left out of the lookup
NoteGetOwned_AnyUser(ns, id, u) == {n \in ns : n.id = id}
\* Note.objects.get(id=note_id, user=request.user)
NoteGetOwned(ns, id, u) == {n \in ns : n.id = id /\ n.user = u}
\* Note.objects.filter(user=request.user)
NotesOfUser(ns, u) == {n \in ns : n.user = u}
\* a slip: filter(id=category.id)
NotesOfCategory_ById(ns, cid) == {n \in ns : n.id = cid}
\* Note.objects.filter(category=category), the queryset delete_category deletes
NotesOfCategory(ns, cid) == {n \in ns : n.category = Some(cid)}
\* a slip: the user filter left out
NotesOfCategoryOwned_AnyUser(ns, cid, u) == NotesOfCategory(ns, cid)
\* Note.objects.filter(category=category, user=request.user)
NotesOfCategoryOwned(ns, cid, u) == {n \in NotesOfCategory(ns, cid) : n.user = u}
\* notes.delete()
NotesDelete(ns, gone) == ns \ gone
\* Model.save() of a loaded row: UPDATE by primary key, INSERT when no row has it
SaveRow(rows, row) == {r \in rows : r.id # row.id} \cup {row}
\* Model.delete() of a loaded row: DELETE by primary key
DeleteRow(rows, row) == {r \in rows : r.id # row.id}
\* category.delete() collects the notes that reference the category
\* (on_delete=CASCADE) and deletes them with it
CascadeNotes(ns, cat) == {n \in ns : n.category # Some(cat.id)}

\* order_by('-pinned'): pinned rows first; the order of rows with equal keys
\* is the database's choice
PinnedFirst(seq) ==
    \A i, j \in 1..Len(seq) : i < j => (seq[j].pinned => seq[i].pinned)
OrderByPinned(rows) ==
    {seq \in [1..Cardinality(rows) -> rows] :
        /\ \A i, j \in 1..Cardinality(rows) : i # j => seq[i] # seq[j]
        /\ PinnedFirst(seq)}

\* the title of the category a note row references, {} when it has none
CategoryTitleOf(cats, n) == {c.title : c \in {c \in cats : n.category = Some(c.id)}}
\* the rows the combined query selects from: each note joined with every
\* category row it references, or once with no category when there is none
SearchJoin(ns, cats) ==
    UNION {LET cs == {c \in cats : n.category = Some(c.id)}
           IN  IF cs = {}
               THEN {[note |-> n, category |-> Absent]}
               ELSE {[note |-> n, category |-> Some(c)] : c \in cs} : n \in ns}
\* notes.filter(title__icontains=q) | notes.filter(category__title__icontains=q):
\* one query whose condition is the disjunction of the two lookups
SearchRows(ns, cats, q) ==
    {r \in SearchJoin(ns, cats) :
        \/ IContains(r.note.title, q)
        \/ r.category # Absent /\ IContains(Val(r.category).title, q)}
\* the notes of the selected rows
SearchFilter(ns, cats, q) == {r.note : r \in SearchRows(ns, cats, q)}

\* ------------------------------------------------------------- responses
\* request.user of a request that carries a valid access token
Authenticated == {x.id : x \in users}

\* the handler that answered, the status and the rows of the body; for a
\* delete, whose body is a message, the rows it removed
Response(op, status, out) == [op |-> op, status |-> status, out |-> out]

\* rows created so far
Rows == (nextId.category - 1) + (nextId.note - 1)
\* ids a URL or a request may name: those created and the next one, which no
\* row has
ReqCategoryIds == 1..nextId.category
ReqNoteIds == 1..nextId.note

StoreUnchanged == UNCHANGED <<categories, notes, nextId>>
Frame == UNCHANGED <<users, slots>>

\* ------------------------------------------------------------- categories
\* CategorySerializer.is_valid(): title is required and may not be blank
CategoryValid(title) == ~FalsyStr(title)

\* POST categories/create/
create_category(u, title) ==
    /\ Frame
    /\ IF ~CategoryValid(title)
       THEN /\ StoreUnchanged
            /\ last' = Response("create_category", 400, {})
       ELSE LET row == [id |-> nextId.category, title |-> Val(title), user |-> u]
            IN /\ Rows < MaxRows
               /\ categories' = categories \cup {row}
               /\ nextId' = [nextId EXCEPT !.category = @ + 1]
               /\ UNCHANGED notes
               /\ last' = Response("create_category", 201, {row})

\* a slip: the lookup filters on the caller, as delete_category does, so that
\* another user's category is not found
edit_category_GetOwned(u, id, title) ==
    /\ Frame
    /\ LET found == CategoryGetOwned(categories, id, u)
       IN IF found = {}
          THEN /\ StoreUnchanged
               /\ last' = Response("edit_category", 404, {})
          ELSE IF ~CategoryValid(title)
          THEN /\ StoreUnchanged
               /\ last' = Response("edit_category", 400, {})
          ELSE LET row == [Val(found) EXCEPT !.title = Val(title)]
               IN /\ categories' = SaveRow(categories, row)
                  /\ UNCHANGED <<notes, nextId>>
                  /\ last' = Response("edit_category", 200, {row})

\* CategorySerializer's validated data of a request body: id and user are
\* read-only, so only the title of the body is kept
CategoryValidated(data) == [title |-> data.title]

\* PUT categories/update/<id>/
edit_category(u, id, title) ==
    /\ Frame
    /\ LET found == CategoryGetAny(categories, id)
       IN IF found = {}
          THEN /\ StoreUnchanged
               /\ last' = Response("edit_category", 404, {})
          ELSE IF Val(found).user # u
          THEN /\ StoreUnchanged
               /\ last' = Response("edit_category", 403, {})
          ELSE IF ~CategoryValid(title)
          THEN /\ StoreUnchanged
               /\ last' = Response("edit_category", 400, {})
          ELSE LET row == [Val(found) EXCEPT !.title = Val(title)]
               IN /\ categories' = SaveRow(categories, row)
                  /\ UNCHANGED <<notes, nextId>>
                  /\ last' = Response("edit_category", 200, {row})

\* GET categories/
get_categories(u) ==
    /\ Frame /\ StoreUnchanged
    /\ last' = Response("get_categories", 200,
                        {c \in categories : c.user = u})

\* DELETE categories/delete/<id>/
delete_category(u, id) ==
    /\ Frame
    /\ LET found == CategoryGetOwned(categories, id, u)
       IN IF found = {}
          THEN /\ StoreUnchanged
               /\ last' = Response("delete_category", 404, {})
          ELSE LET afterNotes == NotesDelete(notes, NotesOfCategory(notes, id))
               IN /\ notes' = CascadeNotes(afterNotes, Val(found))
                  /\ categories' = DeleteRow(categories, Val(found))
                  /\ UNCHANGED nextId
                  /\ last' = Response("delete_category", 200,
                                      notes \ notes')

\* ------------------------------------------------------------- notes
\* the defaults of Note.font_size and Note.font_style, which a row gets when it
\* is constructed without the field
DefaultFontSize == 16
DefaultFontStyle == <<"n", "o", "r", "m", "a", "l">>

\* POST notes/create/
create_note(u, title, content, category, pinned, font_size, font_style) ==
    /\ Frame
    /\ IF FalsyStr(title) \/ FalsyStr(content) \/ FalsyId(category)
       THEN /\ StoreUnchanged
            /\ last' = Response("create_note", 400, {})
       ELSE IF CategoryGetOwned(categories, Val(category), u) = {}
       THEN /\ StoreUnchanged
            /\ last' = Response("create_note", 400, {})
       ELSE LET row == [id |-> nextId.note, title |-> Val(title),
                        content |-> Val(content), category |-> category,
                        user |-> u,
                        pinned |-> (pinned # Absent /\ Val(pinned)),
                        font_size |-> font_size, font_style |-> font_style]
            IN \/ /\ Rows < MaxRows
                  /\ notes' = notes \cup {row}
                  /\ nextId' = [nextId EXCEPT !.note = @ + 1]
                  /\ UNCHANGED categories
                  /\ last' = Response("create_note", 201, {row})
               \/ \* font_size=None or font_style=None is written as NULL into
                  \* a NOT NULL column: a database that enforces the
                  \* constraint raises IntegrityError, which the view does
                  \* not catch; one that does not stores the NULL (above)
                  /\ font_size = Absent \/ font_style = Absent
                  /\ StoreUnchanged
                  /\ last' = Response("create_note", 500, {})

\* a slip: the flag is set instead of flipped
toggle_pin_SetsPinned(u, id) ==
    /\ Frame
    /\ LET found == NoteGetOwned(notes, id, u)
       IN IF found = {}
          THEN /\ StoreUnchanged
               /\ last' = Response("toggle_pin", 404, {})
          ELSE LET row == [Val(found) EXCEPT !.pinned = TRUE]
               IN /\ notes' = SaveRow(notes, row)
                  /\ UNCHANGED <<categories, nextId>>
                  /\ last' = Response("toggle_pin", 200, {row})

\* POST notes/toggle-pin/<id>/
toggle_pin(u, id) ==
    /\ Frame
    /\ LET found == NoteGetOwned(notes, id, u)
       IN IF found = {}
          THEN /\ StoreUnchanged
               /\ last' = Response("toggle_pin", 404, {})
          ELSE LET row == [Val(found) EXCEPT !.pinned = ~@]
               IN /\ notes' = SaveRow(notes, row)
                  /\ UNCHANGED <<categories, nextId>>
                  /\ last' = Response("toggle_pin", 200, {row})

\* GET notes/
get_notes(u) ==
    /\ Frame /\ StoreUnchanged
    /\ \E seq \in OrderByPinned(NotesOfUser(notes, u)) :
           last' = Response("get_notes", 200, seq)

\* GET notes/category/<id>/
get_notes_by_category(u, id) ==
    /\ Frame /\ StoreUnchanged
    /\ IF CategoryGetOwned(categories, id, u) = {}
       THEN last' = Response("get_notes_by_category", 404, <<>>)
       ELSE \E seq \in OrderByPinned(NotesOfCategoryOwned(notes, id, u)) :
                last' = Response("get_notes_by_category", 200, seq)

\* GET notes/<id>/
get_note(u, id) ==
    /\ Frame /\ StoreUnchanged
    /\ LET found == NoteGetOwned(notes, id, u)
       IN last' = Response("get_note",
                           IF found = {} THEN 404 ELSE 200, found)

\* A PUT notes/update/<id>/ body has each key absent ({}) or present; a present
\* category is null ({}) or a primary key.
\* NoteSerializer(note, data, partial=True).is_valid(): a present string may
\* not be blank, a present category is null or the key of an existing
\* category (PrimaryKeyRelatedField over Category.objects.all())
NoteValid(p, cats) ==
    /\ p.title = Absent \/ Val(p.title) # <<>>
    /\ p.content = Absent \/ Val(p.content) # <<>>
    /\ p.font_style = Absent \/ Val(p.font_style) # <<>>
    /\ \/ p.category = Absent
       \/ Val(p.category) = Absent
       \/ CategoryGetAny(cats, Val(Val(p.category))) # {}

\* a slip: user left writable, so a user key of the body overwrites the owner
NoteApply_WritesUser(row, p) ==
    [row EXCEPT
        !.title = IF p.title = Absent THEN @ ELSE Val(p.title),
        !.content = IF p.content = Absent THEN @ ELSE Val(p.content),
        !.category = IF p.category = Absent THEN @ ELSE Val(p.category),
        !.pinned = IF p.pinned = Absent THEN @ ELSE Val(p.pinned),
        !.font_size = IF p.font_size = Absent THEN @ ELSE p.font_size,
        !.font_style = IF p.font_style = Absent THEN @ ELSE p.font_style,
        !.user = IF "user" \in DOMAIN p THEN Val(p.user) ELSE @]
\* serializer.save(): the present keys overwrite the loaded row; user is
\* read-only
NoteApply(row, p) ==
    [row EXCEPT
        !.title = IF p.title = Absent THEN @ ELSE Val(p.title),
        !.content = IF p.content = Absent THEN @ ELSE Val(p.content),
        !.category = IF p.category = Absent THEN @ ELSE Val(p.category),
        !.pinned = IF p.pinned = Absent THEN @ ELSE Val(p.pinned),
        !.font_size = IF p.font_size = Absent THEN @ ELSE p.font_size,
        !.font_style = IF p.font_style = Absent THEN @ ELSE p.font_style]

\* PUT notes/update/<id>/
update_note(u, id, p) ==
    /\ Frame
    /\ LET found == NoteGetOwned(notes, id, u)
       IN IF found = {}
          THEN /\ StoreUnchanged
               /\ last' = Response("update_note", 404, {})
          ELSE IF ~NoteValid(p, categories)
          THEN /\ StoreUnchanged
               /\ last' = Response("update_note", 400, {})
          ELSE LET row == NoteApply(Val(found), p)
               IN /\ notes' = SaveRow(notes, row)
                  /\ UNCHANGED <<categories, nextId>>
                  /\ last' = Response("update_note", 200, {row})

\* DELETE notes/delete/<id>/
delete_note(u, id) ==
    /\ Frame
    /\ LET found == NoteGetOwned(notes, id, u)
       IN IF found = {}
          THEN /\ StoreUnchanged
               /\ last' = Response("delete_note", 404, {})
          ELSE /\ notes' = DeleteRow(notes, Val(found))
               /\ UNCHANGED <<categories, nextId>>
               /\ last' = Response("delete_note", 200, found)

\* GET notes/search/?q=
search_notes(u, q) ==
    /\ Frame /\ StoreUnchanged
    /\ IF FalsyStr(q)
       THEN last' = Response("search_notes", 400, {})
       ELSE last' = Response("search_notes", 200,
                             SearchFilter(NotesOfUser(notes, u), categories, Val(q)))

\* ------------------------------------------------------------- credentials
\* a slip: User.objects.create(...) stores the raw password
MakePassword_Raw(pw) == pw
\* make_password(): the stored credential is a tagged digest, not the password
MakePassword(pw) == <<"pbkdf2_sha256">> \o pw
\* a slip: the raw password compared with the stored credential
CheckPassword_Plain(raw, encoded) == encoded = raw
\* check_password(raw, encoded)
CheckPassword(raw, encoded) == encoded = <<"pbkdf2_sha256">> \o raw

\* User.objects.create_user(username, email, password, first_name, last_name)
User(id, username, email, password, first_name, last_name) ==
    [id |-> id, username |-> username, email |-> email,
     password |-> MakePassword(password), first_name |-> first_name,
     last_name |-> last_name]

\* ------------------------------------------------------------- Spec
\* a worker that runs no request
Idle == [pc |-> "idle"]
NoResponse == Response("none", 0, {})

\* two registered users, empty category and note tables
Init ==
    /\ users = {User(1, <<"a">>, <<"a">>, <<"a">>, <<"a">>, <<"a">>),
                User(2, <<"b">>, <<"b">>, <<"b">>, <<"a">>, <<"a">>)}
    /\ categories = {}
    /\ notes = {}
    /\ nextId = [user |-> 3, category |-> 1, note |-> 1]
    /\ last = NoResponse
    /\ slots = [w \in 1..NumWorkers |-> Idle]

\* request bodies of Spec
NotePayload(t, c, cat, pin, fs, fst) ==
    [title |-> t, content |-> c, category |-> cat, pinned |-> pin,
     font_size |-> fs, font_style |-> fst]
CategoryPayloads ==
    {NotePayload(Absent, Absent, cat, Absent, Absent, Absent) :
        cat \in {Absent, Some(Absent)} \cup {Some(Some(c)) : c \in ReqCategoryIds}}
CorePayloads ==
    CategoryPayloads
    \cup {NotePayload(Some(<<>>), Absent, Some(Absent), Absent, Absent, Absent)}

\* a note request of Spec: title and category vary, the rest is fixed
CoreCreateNote(u) ==
    \E t \in {Absent, Some(TitleA)},
       cat \in {Absent, Some(0)} \cup {Some(k) : k \in ReqCategoryIds} :
        create_note(u, t, Some(<<"a">>), cat, Absent, Some(16), Some(<<"a">>))

Next ==
    \/ \E u \in Authenticated, t \in {Absent, Some(TitleA)} :
          create_category(u, t)
    \/ \E u \in Authenticated, id \in ReqCategoryIds, t \in {Absent, Some(TitleB)} :
          edit_category(u, id, t)
    \/ \E u \in Authenticated, id \in ReqCategoryIds : delete_category(u, id)
    \/ \E u \in Authenticated : CoreCreateNote(u)
    \/ \E u \in Authenticated, id \in ReqNoteIds, p \in CorePayloads :
          update_note(u, id, p)
    \/ \E u \in Authenticated, id \in ReqNoteIds : delete_note(u, id)

Spec == Init /\ [][Next]_vars

\* ReadSpec: the handlers that list and search notes, over stores built by
\* the creating handlers and update_note
ReadNext ==
    \/ \E u \in Authenticated, t \in {Some(TitleA), Some(TitleB)} :
          create_category(u, t)
    \/ \E u \in Authenticated, cat \in {Some(k) : k \in ReqCategoryIds} :
          create_note(u, Some(TitleA), Some(<<"a">>), cat, Absent,
                      Some(16), Some(<<"a">>))
    \/ \E u \in Authenticated, id \in ReqNoteIds, p \in CategoryPayloads :
          update_note(u, id, p)
    \/ \E u \in Authenticated, id \in ReqCategoryIds : get_notes_by_category(u, id)
    \/ \E u \in Authenticated, q \in ReqQueries : search_notes(u, q)

ReadSpec == Init /\ [][ReadNext]_vars

\* NoteSpec: the handlers of single notes, asked by either user for ids that
\* are the caller's, another user's or unused, with create_note bodies that
\* miss keys or name a category that is not the caller's
NoteNext ==
    \/ \E u \in Authenticated : create_category(u, Some(TitleA))
    \/ \E u \in Authenticated, t \in {Absent, Some(<<>>), Some(TitleA)},
          c \in {Absent, Some(<<"a">>)},
          cat \in {Absent, Some(0)} \cup {Some(k) : k \in ReqCategoryIds} :
          create_note(u, t, c, cat, Absent, Some(16), Some(<<"a">>))
    \/ \E u \in Authenticated, id \in ReqNoteIds : get_note(u, id)
    \/ \E u \in Authenticated, id \in ReqNoteIds :
          update_note(u, id, NotePayload(Some(TitleB), Absent, Absent, Absent,
                                         Absent, Absent))
    \/ \E u \in Authenticated, id \in ReqNoteIds : delete_note(u, id)
    \/ \E u \in Authenticated, id \in ReqNoteIds : toggle_pin(u, id)

NoteSpec == Init /\ [][NoteNext]_vars

\* CategorySpec: the handlers that edit and delete a category and the reads
\* by id, asked by either user for ids that are the caller's, another user's
\* or unused
CategoryNext ==
    \/ \E u \in Authenticated : create_category(u, Some(TitleA))
    \/ \E u \in Authenticated, id \in ReqCategoryIds, t \in {Absent, Some(TitleB)} :
          edit_category(u, id, t)
    \/ \E u \in Authenticated, id \in ReqCategoryIds : delete_category(u, id)
    \/ \E u \in Authenticated, cat \in {Some(k) : k \in ReqCategoryIds} :
          create_note(u, Some(TitleA), Some(<<"a">>), cat, Absent,
                      Some(16), Some(<<"a">>))
    \/ \E u \in Authenticated, id \in ReqNoteIds : get_note(u, id)
    \/ \E u \in Authenticated, id \in ReqCategoryIds : get_notes_by_category(u, id)

CategorySpec == Init /\ [][CategoryNext]_vars

\* ListSpec: the two listings of notes, over stores built by creates, deletes
\* and toggle_pin
ListNext ==
    \/ \E u \in Authenticated : create_category(u, Some(TitleA))
    \/ \E u \in Authenticated, cat \in {Some(k) : k \in ReqCategoryIds},
          pin \in {Absent, Some(TRUE)} :
          create_note(u, Some(TitleA), Some(<<"a">>), cat, pin,
                      Some(16), Some(<<"a">>))
    \/ \E u \in Authenticated, id \in ReqNoteIds : toggle_pin(u, id)
    \/ \E u \in Authenticated, id \in ReqNoteIds : delete_note(u, id)
    \/ \E u \in Authenticated : get_notes(u)
    \/ \E u \in Authenticated, id \in ReqCategoryIds : get_notes_by_category(u, id)

ListSpec == Init /\ [][ListNext]_vars

\* OwnerSpec: edit_category and update_note with bodies that carry a user key
\* naming a user other than the caller (another user, or a key no user has)
OtherUsers(u) == (Authenticated \cup {nextId.user}) \ {u}
OwnerNext ==
    \/ \E u \in Authenticated : create_category(u, Some(TitleA))
    \/ \E u \in Authenticated, cat \in {Some(k) : k \in ReqCategoryIds} :
          create_note(u, Some(TitleA), Some(<<"a">>), cat, Absent,
                      Some(16), Some(<<"a">>))
    \/ \E u \in Authenticated, id \in ReqCategoryIds,
          t \in {Absent, Some(TitleB)} :
          \E other \in OtherUsers(u) :
          edit_category(u, id, CategoryValidated([title |-> t, user |-> Some(other)]).title)
    \/ \E u \in Authenticated, id \in ReqNoteIds,
          t \in {Absent, Some(TitleB)}, cat \in {Absent, Some(Absent)} :
          \E other \in OtherUsers(u) :
          update_note(u, id, [title |-> t, content |-> Absent, category |-> cat,
                              pinned |-> Absent, font_size |-> Absent,
                              font_style |-> Absent, user |-> Some(other)])

OwnerSpec == Init /\ [][OwnerNext]_vars

\* DefaultsSpec: create_note with bodies that carry or leave out pinned,
\* font_size and font_style
DefaultsNext ==
    \/ \E u \in Authenticated : create_category(u, Some(TitleA))
    \/ \E u \in Authenticated, cat \in {Some(k) : k \in ReqCategoryIds},
          pin \in {Absent, Some(TRUE)}, fs \in {Absent, Some(12)},
          fst \in {Absent, Some(<<"b">>)} :
          create_note(u, Some(TitleA), Some(<<"a">>), cat, pin, fs, fst)
    \/ \E u \in Authenticated, id \in ReqNoteIds : get_note(u, id)

DefaultsSpec == Init /\ [][DefaultsNext]_vars

\* ------------------------------------------------------------- ConcSpec
\* The views run in autocommit (no transaction.atomic, no select_for_update):
\* every query of a handler is a step of its own, and the steps of the
\* requests that the workers run interleave.
Workers == 1..NumWorkers

\* a worker between two queries of a handler: the handler, the caller, the
\* row the handler loaded (with the changes it is about to write) and the
\* note rows its notes.delete() removed
Running(pc, op, u, row, removed) ==
    [pc |-> pc, op |-> op, user |-> u, row |-> row, removed |-> removed]

\* a note row whose category_id names no category row
Dangling(cats, row) ==
    row.category # Absent /\ CategoryGetAny(cats, Val(row.category)) = {}

\* the handler returns before its first write
Refuse(w, op, status) ==
    /\ slots' = slots
    /\ StoreUnchanged
    /\ last' = Response(op, status, {})
\* the handler has loaded a row and goes on to its next query
Load(w, pc, op, u, row) ==
    /\ slots' = [slots EXCEPT ![w] = Running(pc, op, u, row, {})]
    /\ StoreUnchanged
    /\ UNCHANGED last

\* delete_category: category = Category.objects.get(id=..., user=request.user)
delete_category_get(w, u, id) ==
    /\ slots[w] = Idle /\ UNCHANGED users
    /\ LET found == CategoryGetOwned(categories, id, u)
       IN IF found = {}
          THEN Refuse(w, "delete_category", 404)
          ELSE Load(w, "notes_delete", "delete_category", u, Val(found))

\* delete_category: Note.objects.filter(category=category).delete()
delete_category_notes_delete(w) ==
    /\ slots[w].pc = "notes_delete" /\ UNCHANGED users
    /\ LET gone == NotesOfCategory(notes, slots[w].row.id)
       IN /\ notes' = NotesDelete(notes, gone)
          /\ slots' = [slots EXCEPT ![w].pc = "category_delete",
                                    ![w].removed = gone]
    /\ UNCHANGED <<categories, nextId, last>>

\* delete_category: category.delete() and the 200 response
delete_category_category_delete(w) ==
    /\ slots[w].pc = "category_delete" /\ UNCHANGED users
    /\ notes' = CascadeNotes(notes, slots[w].row)
    /\ categories' = DeleteRow(categories, slots[w].row)
    /\ UNCHANGED nextId
    /\ slots' = [slots EXCEPT ![w] = Idle]
    /\ last' = Response("delete_category", 200,
                        slots[w].removed \cup (notes \ notes'))

\* delete_category: category.delete() raises (the database is unreachable,
\* the worker is stopped); nothing in the view undoes notes.delete()
delete_category_category_delete_fails(w) ==
    /\ slots[w].pc = "category_delete" /\ UNCHANGED users
    /\ StoreUnchanged
    /\ slots' = [slots EXCEPT ![w] = Idle]
    /\ last' = Response("delete_category", 500, {})

\* create_note: the checks and Category.objects.get(id=..., user=request.user)
create_note_get(w, u, title, category) ==
    /\ slots[w] = Idle /\ UNCHANGED users
    /\ IF FalsyStr(title) \/ FalsyId(category)
          \/ CategoryGetOwned(categories, Val(category), u) = {}
       THEN Refuse(w, "create_note", 400)
       ELSE Load(w, "create", "create_note", u,
                 [id |-> 0, title |-> Val(title), content |-> <<"a">>,
                  category |-> category, user |-> u, pinned |-> FALSE,
                  font_size |-> Some(16), font_style |-> Some(<<"a">>)])

\* create_note: Note.objects.create(...). The row names the category loaded
\* before; when that category is gone, a store that enforces the foreign key
\* raises IntegrityError and one that does not writes the row.
create_note_create(w) ==
    /\ slots[w].pc = "create" /\ UNCHANGED users
    /\ slots' = [slots EXCEPT ![w] = Idle]
    /\ LET row == [slots[w].row EXCEPT !.id = nextId.note]
       IN \/ /\ Rows < MaxRows
             /\ notes' = notes \cup {row}
             /\ nextId' = [nextId EXCEPT !.note = @ + 1]
             /\ UNCHANGED categories
             /\ last' = Response("create_note", 201, {row})
          \/ /\ Dangling(categories, row)
             /\ StoreUnchanged
             /\ last' = Response("create_note", 500, {})

\* toggle_pin: Note.objects.get(id=..., user=request.user); note.pinned = not
\* note.pinned
toggle_pin_get(w, u, id) ==
    /\ slots[w] = Idle /\ UNCHANGED users
    /\ LET found == NoteGetOwned(notes, id, u)
       IN IF found = {}
          THEN Refuse(w, "toggle_pin", 404)
          ELSE Load(w, "save", "toggle_pin", u,
                    [Val(found) EXCEPT !.pinned = ~@])

\* update_note: Note.objects.get(id=..., user=request.user) and
\* serializer.is_valid()
update_note_get(w, u, id, p) ==
    /\ slots[w] = Idle /\ UNCHANGED users
    /\ LET found == NoteGetOwned(notes, id, u)
       IN IF found = {}
          THEN Refuse(w, "update_note", 404)
          ELSE IF ~NoteValid(p, categories)
          THEN Refuse(w, "update_note", 400)
          ELSE Load(w, "save", "update_note", u, NoteApply(Val(found), p))

\* toggle_pin, update_note: note.save() writes every column of the loaded
\* row: UPDATE by primary key, INSERT when the row has been deleted since
note_save(w) ==
    /\ slots[w].pc = "save" /\ UNCHANGED users
    /\ slots' = [slots EXCEPT ![w] = Idle]
    /\ \/ /\ notes' = SaveRow(notes, slots[w].row)
          /\ UNCHANGED <<categories, nextId>>
          /\ last' = Response(slots[w].op, 200, {slots[w].row})
       \/ /\ Dangling(categories, slots[w].row)
          /\ StoreUnchanged
          /\ last' = Response(slots[w].op, 500, {})

\* delete_note: Note.objects.get(id=..., user=request.user)
delete_note_get(w, u, id) ==
    /\ slots[w] = Idle /\ UNCHANGED users
    /\ LET found == NoteGetOwned(notes, id, u)
       IN IF found = {}
          THEN Refuse(w, "delete_note", 404)
          ELSE Load(w, "delete", "delete_note", u, Val(found))

\* delete_note: note.delete()
note_delete(w) ==
    /\ slots[w].pc = "delete" /\ UNCHANGED users
    /\ slots' = [slots EXCEPT ![w] = Idle]
    /\ notes' = DeleteRow(notes, slots[w].row)
    /\ UNCHANGED <<categories, nextId>>
    /\ last' = Response("delete_note", 200, {slots[w].row} \cap notes)

\* edit_category: Category.objects.get(id=...), the owner check and
\* serializer.is_valid()
edit_category_get(w, u, id, title) ==
    /\ slots[w] = Idle /\ UNCHANGED users
    /\ LET found == CategoryGetAny(categories, id)
       IN IF found = {}
          THEN Refuse(w, "edit_category", 404)
          ELSE IF Val(found).user # u
          THEN Refuse(w, "edit_category", 403)
          ELSE IF ~CategoryValid(title)
          THEN Refuse(w, "edit_category", 400)
          ELSE Load(w, "save_category", "edit_category", u,
                    [Val(found) EXCEPT !.title = Val(title)])

\* edit_category: serializer.save()
category_save(w) ==
    /\ slots[w].pc = "save_category" /\ UNCHANGED users
    /\ slots' = [slots EXCEPT ![w] = Idle]
    /\ categories' = SaveRow(categories, slots[w].row)
    /\ UNCHANGED <<notes, nextId>>
    /\ last' = Response("edit_category", 200, {slots[w].row})

\* a request whose handler issues one query is one step of an idle worker
OneQuery(A) == (\E w \in Workers : slots[w] = Idle) /\ A

ConcNext ==
    \/ \E u \in Authenticated :
          Rows < MaxConcRows /\ OneQuery(create_category(u, Some(TitleA)))
    \/ \E w \in Workers, u \in Authenticated, id \in ReqCategoryIds :
          delete_category_get(w, u, id)
    \/ \E w \in Workers : delete_category_notes_delete(w)
    \/ \E w \in Workers : delete_category_category_delete(w)
    \/ \E w \in Workers : delete_category_category_delete_fails(w)
    \/ \E w \in Workers, u \in Authenticated,
          cat \in {Some(k) : k \in ReqCategoryIds} :
          Rows < MaxConcRows /\ create_note_get(w, u, Some(TitleA), cat)
    \/ \E w \in Workers : create_note_create(w)
    \/ \E w \in Workers, u \in Authenticated, id \in ReqNoteIds :
          toggle_pin_get(w, u, id)
    \/ \E w \in Workers, u \in Authenticated, id \in ReqNoteIds,
          p \in CategoryPayloads : update_note_get(w, u, id, p)
    \/ \E w \in Workers : note_save(w)
    \/ \E w \in Workers, u \in Authenticated, id \in ReqNoteIds :
          delete_note_get(w, u, id)
    \/ \E w \in Workers : note_delete(w)
    \/ \E w \in Workers, u \in Authenticated, id \in ReqCategoryIds :
          edit_category_get(w, u, id, Some(TitleB))
    \/ \E w \in Workers : category_save(w)
    \/ \E u \in Authenticated, id \in ReqCategoryIds :
          OneQuery(get_notes_by_category(u, id))
    \/ \E u \in Authenticated : OneQuery(get_categories(u))
    \/ \E u \in Authenticated : OneQuery(get_notes(u))
    \/ \E u \in Authenticated, id \in ReqNoteIds : OneQuery(get_note(u, id))

\* one registered user, empty category and note tables, idle workers
ConcInit ==
    /\ users = {User(1, <<"a">>, <<"a">>, <<"a">>, <<"a">>, <<"a">>)}
    /\ categories = {}
    /\ notes = {}
    /\ nextId = [user |-> 2, category |-> 1, note |-> 1]
    /\ last = NoResponse
    /\ slots = [w \in Workers |-> Idle]

ConcSpec == ConcInit /\ [][ConcNext]_vars

\* ------------------------------------------------------------- users
Usernames == {<<"a">>, <<"b">>, <<"a", "b">>}
Emails == {<<"a">>, <<"b">>}
Passwords == {<<"a">>, <<"b">>}
PersonNames == {<<"a">>}

Opt(S) == {Absent} \cup {Some(v) : v \in S}

\* a POST register/ body, with at most one of the five keys missing
RegisterPayloads ==
    {d \in [username : Opt(Usernames \cup {<<>>}), email : Opt(Emails),
            password : Opt(Passwords \cup {<<>>}),
            first_name : Opt(PersonNames), last_name : Opt(PersonNames)] :
        Cardinality({k \in DOMAIN d : d[k] = Absent}) <= 1}

AllPresent(d) == \A k \in DOMAIN d : d[k] # Absent
\* auth_user.username is UNIQUE; auth_user.email is not
UsernameTaken(us, name) == \E x \in us : x.username = name
EmailUsed(us, email) == \E x \in us : x.email = email

\* RefreshToken.for_user(user): the pair of tokens bound to the user
TokenPair(id) == {[token |-> "access", user |-> id],
                  [token |-> "refresh", user |-> id]}

AuthFrame == UNCHANGED <<categories, notes, slots>>

\* POST register/
register(d) ==
    /\ AuthFrame
    /\ IF ~AllPresent(d)
       THEN \* data['...'] raises KeyError
            /\ UNCHANGED <<users, nextId>>
            /\ last' = Response("register", 400, {})
       ELSE IF Val(d.username) = <<>>
       THEN \* create_user raises ValueError: the given username must be set
            /\ UNCHANGED <<users, nextId>>
            /\ last' = Response("register", 400, {})
       ELSE IF UsernameTaken(users, Val(d.username))
       THEN \* IntegrityError on the UNIQUE username
            /\ UNCHANGED <<users, nextId>>
            /\ last' = Response("register", 400, {})
       ELSE /\ nextId.user <= MaxUsers
            /\ last' = Response("register", 201, TokenPair(nextId.user))
            /\ nextId' = [nextId EXCEPT !.user = @ + 1]
            /\ users' = users \cup
                 {User(nextId.user, Val(d.username), Val(d.email),
                       Val(d.password), Val(d.first_name), Val(d.last_name))}

\* TokenObtainPairView: both fields are required and may not be blank; then
\* authenticate(username, password)
LoginUsers(us, username, password) ==
    {x \in us : x.username = username /\ CheckPassword(password, x.password)}
LoginStatus(us, username, password) ==
    IF FalsyStr(username) \/ FalsyStr(password) THEN 400
    ELSE IF LoginUsers(us, Val(username), Val(password)) = {} THEN 401
    ELSE 200

\* POST login/
login(username, password) ==
    /\ AuthFrame /\ UNCHANGED <<users, nextId>>
    /\ LET st == LoginStatus(users, username, password)
       IN last' = Response("login", st,
                     IF st = 200
                     THEN TokenPair(Val(LoginUsers(users, Val(username),
                                                   Val(password))).id)
                     ELSE {})

\* GET profile/
get_profile(u) ==
    /\ AuthFrame /\ UNCHANGED <<users, nextId>>
    /\ last' = Response("get_profile", 200,
                  {[username |-> x.username, email |-> x.email,
                    first_name |-> x.first_name, last_name |-> x.last_name] :
                      x \in {x \in users : x.id = u}})

\* user.save() of request.user
SaveUser(us, row) == {x \in us : x.id # row.id} \cup {row}

\* a slip: a key that is present overwrites, also with an empty value
update_profile_WritesEmpty(u, email, first_name, last_name) ==
    /\ AuthFrame /\ UNCHANGED nextId
    /\ LET user == Val({x \in users : x.id = u})
           row == [user EXCEPT
                     !.email = IF email = Absent THEN @ ELSE Val(email),
                     !.first_name = IF first_name = Absent THEN @
                                    ELSE Val(first_name),
                     !.last_name = IF last_name = Absent THEN @
                                   ELSE Val(last_name)]
       IN /\ users' = SaveUser(users, row)
          /\ last' = Response("update_profile", 200, {})

\* PUT profile/
update_profile(u, email, first_name, last_name) ==
    /\ AuthFrame /\ UNCHANGED nextId
    /\ LET user == Val({x \in users : x.id = u})
           row == [user EXCEPT
                     !.email = IF FalsyStr(email) THEN @ ELSE Val(email),
                     !.first_name = IF FalsyStr(first_name) THEN @
                                    ELSE Val(first_name),
                     !.last_name = IF FalsyStr(last_name) THEN @
                                   ELSE Val(last_name)]
       IN /\ users' = SaveUser(users, row)
          /\ last' = Response("update_profile", 200, {})

\* POST reset-password/
reset_password(u, current_password, new_password) ==
    /\ AuthFrame /\ UNCHANGED nextId
    /\ LET user == Val({x \in users : x.id = u})
       IN IF FalsyStr(current_password) \/ FalsyStr(new_password)
          THEN /\ UNCHANGED users
               /\ last' = Response("reset_password", 400, {})
          ELSE IF ~CheckPassword(Val(current_password), user.password)
          THEN /\ UNCHANGED users
               /\ last' = Response("reset_password", 400, {})
          ELSE IF current_password = new_password
          THEN /\ UNCHANGED users
               /\ last' = Response("reset_password", 400, {})
          ELSE /\ users' = SaveUser(users,
                    [user EXCEPT !.password = MakePassword(Val(new_password))])
               /\ last' = Response("reset_password", 200, {})

\* a slip: the row of the lookup by email is the one that is changed
UserGet_ByEmail(us, username, email) == {x \in us : x.email = email}
\* User.objects.get(username=username, email=email)
UserGet(us, username, email) ==
    {x \in us : x.username = username /\ x.email = email}

\* POST reset-new-password/
reset_new_password(username, email, new_password, re_type_password) ==
    /\ AuthFrame /\ UNCHANGED nextId
    /\ IF FalsyStr(username) \/ FalsyStr(email)
       THEN /\ UNCHANGED users
            /\ last' = Response("reset_new_password", 400, {})
       ELSE LET byName == {x \in users : x.username = Val(username)}
                byEmail == {x \in users : x.email = Val(email)}
                both == UserGet(users, Val(username), Val(email))
            IN IF byName = {}
               THEN /\ UNCHANGED users
                    /\ last' = Response("reset_new_password", 404, {})
               ELSE IF byEmail = {}
               THEN /\ UNCHANGED users
                    /\ last' = Response("reset_new_password", 404, {})
               ELSE IF Cardinality(byEmail) > 1
               THEN \* User.objects.get(email=email) raises
                    \* MultipleObjectsReturned, which the view does not catch
                    /\ UNCHANGED users
                    /\ last' = Response("reset_new_password", 500, {})
               ELSE IF both = {}
               THEN /\ UNCHANGED users
                    /\ last' = Response("reset_new_password", 404, {})
               ELSE IF FalsyStr(new_password) \/ FalsyStr(re_type_password)
               THEN /\ UNCHANGED users
                    /\ last' = Response("reset_new_password", 400, {})
               ELSE IF new_password # re_type_password
               THEN /\ UNCHANGED users
                    /\ last' = Response("reset_new_password", 400, {})
               ELSE /\ users' = SaveUser(users,
                         [Val(both) EXCEPT
                            !.password = MakePassword(Val(new_password))])
                    /\ last' = Response("reset_new_password", 200, {})

\* no user yet
AuthInit ==
    /\ users = {}
    /\ categories = {}
    /\ notes = {}
    /\ nextId = [user |-> 1, category |-> 1, note |-> 1]
    /\ last = NoResponse
    /\ slots = [w \in 1..NumWorkers |-> Idle]

AuthNext ==
    \/ \E d \in RegisterPayloads : register(d)
    \/ \E n \in Opt(Usernames \cup {<<>>}), pw \in Opt(Passwords \cup {<<>>}) :
          login(n, pw)
    \/ \E u \in Authenticated : get_profile(u)
    \/ \E u \in Authenticated, e \in Opt(Emails \cup {<<>>}),
          f \in Opt(PersonNames), l \in Opt(PersonNames) :
          update_profile(u, e, f, l)
    \/ \E u \in Authenticated, cur \in Opt(Passwords \cup {<<>>}),
          new \in Opt(Passwords \cup {<<>>}) : reset_password(u, cur, new)
    \/ \E n \in Opt(Usernames), e \in Opt(Emails),
          new \in Opt(Passwords), re \in Opt(Passwords) :
          reset_new_password(n, e, new, re)

AuthSpec == AuthInit /\ [][AuthNext]_vars

\* ProfileSpec: the profile handlers over two registered users, with bodies
\* whose keys are absent, empty or a value the user does not have yet
ProfileValues == {<<>>, <<"a">>, <<"b">>}
ProfileNext ==
    \/ \E u \in Authenticated : get_profile(u)
    \/ \E u \in Authenticated, e \in Opt(ProfileValues),
          f \in Opt(ProfileValues), l \in Opt(ProfileValues) :
          update_profile(u, e, f, l)

ProfileSpec == Init /\ [][ProfileNext]_vars

\* ------------------------------------------------------------- anonymous requests
\* the handlers decorated with @permission_classes([IsAuthenticated])
Protected ==
    {"reset_password", "get_profile", "update_profile", "create_category",
     "edit_category", "get_categories", "create_note", "toggle_pin",
     "get_notes", "get_notes_by_category", "get_note", "update_note",
     "delete_note", "delete_category", "search_notes"}

\* the body of a response that is a message: its keys and no row
Message(key) == {[key |-> key]}

\* a request without an access token to a handler of Protected: the permission
\* check answers before the handler runs
NotAuthenticated(op) ==
    /\ Frame /\ StoreUnchanged
    /\ last' = Response(op, 401, Message("detail"))

\* GET api/getFirstname/?username=..., by request.user (Absent for a request
\* without an access token); the handler has no permission class
get_firstname(user, username) ==
    /\ Frame /\ StoreUnchanged
    /\ IF user # Absent
       THEN LET name == IF username = Absent
                        THEN Val({x.username : x \in {x \in users : x.id = Val(user)}})
                        ELSE Val(username)
                found == {x \in users : x.username = name}
            IN  IF found = {}
                THEN last' = Response("get_firstname", 404, Message("error"))
                ELSE last' = Response("get_firstname", 200,
                                      {[first_name |-> x.first_name] : x \in found})
       ELSE last' = Response("get_firstname", 401, Message("error"))

\* AnonSpec: requests without an access token to every handler of user data,
\* and get_firstname with and without one, over stores built by the creating
\* handlers
AnonNext ==
    \/ \E u \in Authenticated : create_category(u, Some(TitleA))
    \/ \E u \in Authenticated, cat \in {Some(k) : k \in ReqCategoryIds} :
          create_note(u, Some(TitleA), Some(<<"a">>), cat, Absent,
                      Some(16), Some(<<"a">>))
    \/ \E op \in Protected : NotAuthenticated(op)
    \/ \E user \in Opt(Authenticated), username \in Opt(Usernames) :
          get_firstname(user, username)

AnonSpec == Init /\ [][AnonNext]_vars

\* ------------------------------------------------------------- claims
\* C1: a successful delete_category(U, c) removes c and exactly the notes
\* whose category is c; every other note and category stays as it was.
C1_DeleteCategoryCascade ==
    [][\A u \in Authenticated, c \in ReqCategoryIds :
          (/\ last'.op = "delete_category"
           /\ delete_category(u, c)
           /\ CategoryGetOwned(categories, c, u) # {})
          => /\ last'.status = 200
             /\ notes' = {n \in notes : n.category # Some(c)}
             /\ categories' = {k \in categories : k.id # c}
             /\ \A n \in notes' : n.category # Some(c)]_vars

\* a category with a note was deleted while a note outside it and another
\* category stay
C1_Witness ==
    /\ last.op = "delete_category" /\ last.status = 200
    /\ last.out # {}
    /\ notes # {} /\ categories # {}

\* the rows of a listing
Listed(seq) == {seq[i] : i \in 1..Len(seq)}

\* C2: a get_notes_by_category(U, c) answered while delete_category(U, c) is
\* running finds c gone, or c with every note that referenced c when the
\* delete began: never c without the notes the delete has removed.
C2_DeleteCategoryAtomic ==
    [][\A w \in Workers :
          (/\ last'.op = "get_notes_by_category"
           /\ slots[w].pc = "category_delete"
           /\ get_notes_by_category(slots[w].user, slots[w].row.id))
          => \/ last'.status = 404
             \/ slots[w].removed \subseteq Listed(last'.out)]_vars

\* C3: when delete_category fails after its note deletion step, the category
\* and the notes that step removed are in the tables as they were.
C3_DeleteCategoryAllOrNothing ==
    [][\A w \in Workers :
          (/\ last'.op = "delete_category" /\ last'.status = 500
           /\ delete_category_category_delete_fails(w))
          => /\ slots[w].row \in categories'
             /\ slots[w].removed \subseteq notes']_vars

\* C4: every note whose category is set references a category that exists.
C4_NoteCategoryExists ==
    \A n \in notes :
        n.category # Absent => CategoryGetAny(categories, Val(n.category)) # {}

\* C5: every note whose category is set is filed under a category of the
\* note's own owner.
C5_NoteCategoryOwner ==
    \A n \in notes : \A c \in categories :
        n.category = Some(c.id) => c.user = n.user

\* the mutating requests a user can make in Spec
MutationBy(u) ==
    \/ \E id \in ReqCategoryIds, t \in {Absent, Some(TitleB)} :
          edit_category(u, id, t)
    \/ \E id \in ReqCategoryIds : delete_category(u, id)
    \/ CoreCreateNote(u)
    \/ \E id \in ReqNoteIds, p \in CorePayloads : update_note(u, id, p)
    \/ \E id \in ReqNoteIds : delete_note(u, id)

\* C6: a mutating request of user U leaves the notes and categories of every
\* other user as they were.
C6_MutationsScopedToCaller ==
    [][\A u \in Authenticated :
          MutationBy(u)
          => /\ {n \in notes' : n.user # u} = {n \in notes : n.user # u}
             /\ {c \in categories' : c.user # u}
                  = {c \in categories : c.user # u}]_vars

\* C7: every note get_notes_by_category(U, id) and search_notes(U, q) return
\* is owned by U.
C7_ReadsReturnOwnNotes ==
    [][\A u \in Authenticated :
          /\ \A id \in ReqCategoryIds :
                (last'.op = "get_notes_by_category" /\ get_notes_by_category(u, id))
                => \A i \in 1..Len(last'.out) : last'.out[i].user = u
          /\ \A q \in ReqQueries :
                (last'.op = "search_notes" /\ search_notes(u, q))
                => \A n \in last'.out : n.user = u]_vars

\* get_notes_by_category answered with the caller's notes of a category that
\* also holds a note of another user
C7_Witness ==
    /\ last.op = "get_notes_by_category" /\ last.status = 200
    /\ Len(last.out) > 0
    /\ \E n \in notes :
          /\ n.category = last.out[1].category
          /\ n.user # last.out[1].user

\* the register body that carries the five keys
PresentPayload(n, e, pw) ==
    [username |-> Some(n), email |-> Some(e), password |-> Some(pw),
     first_name |-> Some(<<"a">>), last_name |-> Some(<<"a">>)]

\* C8: register answers 400 and creates no user when the username is taken,
\* and also when the email is already used by a user (with a fresh username).
C8_RegisterRejectsDuplicates ==
    [][last'.op = "register" =>
       \A n \in Usernames, e \in Emails, pw \in Passwords :
          (/\ UsernameTaken(users, n) \/ EmailUsed(users, e)
           /\ register(PresentPayload(n, e, pw)))
          => (last'.status = 400 /\ users' = users)]_vars

\* C9: no two users share a username and no two users share an email.
C9_UniqueUsernameAndEmail ==
    \A x, y \in users :
        x.id # y.id => (x.username # y.username /\ x.email # y.email)

\* a step that resets a password
PasswordReset ==
    \E x \in users : \E y \in users' : x.id = y.id /\ x.password # y.password

\* the login that follows a registration keeps succeeding until a password is
\* reset
LoginKeepsSucceeding ==
    (users' # users /\ ~PasswordReset)
    => \A n \in Usernames \cup {<<>>}, pw \in Passwords \cup {<<>>} :
          LoginStatus(users, Some(n), Some(pw)) = 200
          => LoginStatus(users', Some(n), Some(pw)) = 200

\* C10 as stated: every payload with the five fields present, a username and
\* an email no user has, is answered 201 with both tokens, and a login with
\* its username and password then succeeds.
C10_RegisterThenLogin_AnyPresentFields ==
    [][/\ last'.op = "register" =>
          \A n \in Usernames \cup {<<>>}, e \in Emails,
             pw \in Passwords \cup {<<>>} :
             (/\ ~UsernameTaken(users, n) /\ ~EmailUsed(users, e)
              /\ register(PresentPayload(n, e, pw)))
             => /\ last'.status = 201
                /\ {t.token : t \in last'.out} = {"access", "refresh"}
                /\ LoginStatus(users', Some(n), Some(pw)) = 200
       /\ LoginKeepsSucceeding]_vars

\* C10, amended: the same for the payloads whose username and password are
\* not empty.
C10_RegisterThenLogin ==
    [][/\ last'.op = "register" =>
          \A n \in Usernames, e \in Emails, pw \in Passwords :
             (/\ ~UsernameTaken(users, n) /\ ~EmailUsed(users, e)
              /\ register(PresentPayload(n, e, pw)))
             => /\ last'.status = 201
                /\ {t.token : t \in last'.out} = {"access", "refresh"}
                /\ LoginStatus(users', Some(n), Some(pw)) = 200
       /\ LoginKeepsSucceeding]_vars

\* a login answered 200 with the token pair of a user that was registered with
\* an email of its own, after a request in between
C10_Witness ==
    /\ last.op = "login" /\ last.status = 200
    /\ {t.token : t \in last.out} = {"access", "refresh"}
    /\ \E x \in users :
          /\ x.id \in {t.user : t \in last.out}
          /\ \A y \in users : y.email = x.email => y = x
    /\ Cardinality(users) = 2

\* the users whose stored password a step changes
PasswordChanged ==
    {x \in users : \E y \in users' : y.id = x.id /\ y.password # x.password}
\* a step that leaves every user row as it is but for the password column
OnlyPasswords ==
    /\ {x.id : x \in users'} = {x.id : x \in users}
    /\ \A x \in users : \E y \in users' : y = [x EXCEPT !.password = y.password]

\* C11: reset_password(U, current, new) answers 200 and stores new as U's
\* password (a login with it succeeds, no other row changes) exactly when both
\* fields are present and not empty, current is U's stored password and new
\* differs from current; in every other case it answers 400 and the user
\* table is unchanged.
C11_ResetPassword ==
    [][last'.op = "reset_password" =>
       \A u \in Authenticated, cur \in Opt(Passwords \cup {<<>>}),
          new \in Opt(Passwords \cup {<<>>}) :
          LET user == Val({x \in users : x.id = u})
              ok == /\ ~FalsyStr(cur) /\ ~FalsyStr(new)
                    /\ user.password = MakePassword(Val(cur))
                    /\ Val(new) # Val(cur)
          IN reset_password(u, cur, new)
             => IF ok
                THEN /\ last'.status = 200
                     /\ PasswordChanged = {user}
                     /\ OnlyPasswords
                     /\ LoginStatus(users', Some(user.username), new) = 200
                     /\ LoginStatus(users', Some(user.username), cur) = 401
                ELSE /\ last'.status = 400
                     /\ users' = users]_vars

\* a password reset answered 200 while two users are registered
C11_Witness ==
    /\ last.op = "reset_password" /\ last.status = 200
    /\ Cardinality(users) = 2
    /\ \E x \in users, pw \in Passwords :
          /\ x.password = MakePassword(pw)
          /\ \A y \in users \ {x} : y.password # x.password

\* C12: reset_new_password changes a password only when username and email
\* are those of one existing user and new_password equals re_type_password;
\* the password changed is that user's and becomes new_password; a request
\* that is not answered 200 changes no user.
C12_ResetNewPassword ==
    [][last'.op = "reset_new_password" =>
       /\ last'.status # 200 => users' = users
       /\ last'.status = 200 =>
          \A n \in Opt(Usernames), e \in Opt(Emails),
             new \in Opt(Passwords), re \in Opt(Passwords) :
             reset_new_password(n, e, new, re)
             => /\ OnlyPasswords
                /\ n # Absent /\ e # Absent /\ new # Absent /\ new = re
                /\ \E x \in users :
                      /\ x.username = Val(n) /\ x.email = Val(e)
                      /\ PasswordChanged \subseteq {x}
                      /\ \E y \in users' :
                            /\ y.id = x.id
                            /\ y.password = MakePassword(Val(new))
                /\ LoginStatus(users', n, new) = 200]_vars

\* a reset by username and email answered 200 while two users are
\* registered, after which the two passwords differ
C12_Witness ==
    /\ last.op = "reset_new_password" /\ last.status = 200
    /\ Cardinality(users) = 2
    /\ \A x, y \in users : x.id # y.id => x.password # y.password

\* a listing with every pinned note before every unpinned one and, among the
\* notes with the same pinned value, the notes in the order of their creation
\* (the ids are handed out in that order)
PinnedThenCreation(seq) ==
    /\ PinnedFirst(seq)
    /\ \A i, j \in 1..Len(seq) :
          (i < j /\ seq[i].pinned = seq[j].pinned) => seq[i].id < seq[j].id

\* C17: get_notes(U) and get_notes_by_category(U, c) list the caller's notes
\* (of category c), the pinned ones first and each group in creation order.
C17_PinnedFirstThenCreationOrder ==
    [][\A u \in Authenticated :
          /\ (last'.op = "get_notes" /\ get_notes(u))
             => /\ Listed(last'.out) = {n \in notes : n.user = u}
                /\ PinnedThenCreation(last'.out)
          /\ last'.op = "get_notes_by_category" =>
             \A id \in ReqCategoryIds :
                (get_notes_by_category(u, id) /\ last'.status = 200)
                => /\ Listed(last'.out) =
                         {n \in notes : n.user = u /\ n.category = Some(id)}
                   /\ PinnedThenCreation(last'.out)]_vars

\* C18: search_notes(U, q) with a non-empty q returns exactly the notes of U
\* whose title, or whose category's title, contains q when letter case is
\* ignored, each from one selected row only; so a query found only in a
\* category's title returns every note U has in that category.
C18_SearchExact ==
    [][last'.op = "search_notes" =>
       \A u \in Authenticated, q \in Queries :
          search_notes(u, Some(q))
          => /\ last'.status = 200
             /\ last'.out =
                   {n \in notes :
                       /\ n.user = u
                       /\ \/ Contains(LowerStr(n.title), LowerStr(q))
                          \/ \E c \in categories :
                                /\ n.category = Some(c.id)
                                /\ Contains(LowerStr(c.title), LowerStr(q))}
             /\ \A n \in last'.out :
                   Cardinality({r \in SearchRows(NotesOfUser(notes, u), categories, q) :
                                   r.note = n}) = 1]_vars

\* search_notes returned a note whose own title does not contain the query in
\* any letter case: it was found through its category's title, which contains
\* the query in another letter case only
C18_Witness ==
    /\ last.op = "search_notes" /\ last.status = 200
    /\ \E n \in last.out, q \in Queries, c \in categories :
          /\ n.category = Some(c.id)
          /\ ~Contains(LowerStr(n.title), LowerStr(q))
          /\ ~Contains(c.title, q)
          /\ Contains(LowerStr(c.title), LowerStr(q))
          /\ last.out = {m \in notes : m.user = n.user /\ m.category = Some(c.id)}
          /\ Cardinality(last.out) > 1

\* a 401 answer whose body is a message keyed detail, with no row of a table
\* in it and no table changed
DeniedWithDetail ==
    /\ last'.status = 401
    /\ last'.out = Message("detail")
    /\ UNCHANGED <<users, categories, notes, nextId>>

\* C19: every handler of user data (the handlers of Protected and
\* get_firstname) answers a request without an access token with 401 and a body
\* keyed detail, returns no stored row and changes no table.
C19_AnonymousDenied ==
    [][/\ \A op \in Protected :
             (last'.op = op /\ NotAuthenticated(op)) => DeniedWithDetail
       /\ last'.op = "get_firstname" =>
          \A username \in Opt(Usernames) :
             get_firstname(Absent, username) => DeniedWithDetail]_vars

\* C21: a category or note row is created with the caller as its owner, and no
\* edit_category or update_note request, whatever user key its body carries,
\* changes the owner of a row.
C21_OwnerNeverChanges ==
    [][/\ \A c \in categories, d \in categories' : c.id = d.id => c.user = d.user
       /\ \A n \in notes, m \in notes' : n.id = m.id => n.user = m.user
       /\ last'.op = "create_category" =>
          \A u \in Authenticated :
             create_category(u, Some(TitleA))
             => \A d \in categories' \ categories : d.user = u
       /\ last'.op = "create_note" =>
          \A u \in Authenticated, k \in ReqCategoryIds :
             create_note(u, Some(TitleA), Some(<<"a">>), Some(k), Absent,
                         Some(16), Some(<<"a">>))
             => \A m \in notes' \ notes : m.user = u]_vars

\* update_note and edit_category have both succeeded (every body of OwnerSpec
\* names another user): a category and a note carry the title only an update
\* sets, and update_note was the last to answer
C21_Witness ==
    /\ last.op = "update_note" /\ last.status = 200
    /\ \E n \in last.out : n.title = TitleB /\ n \in notes
    /\ \E c \in categories : c.title = TitleB

\* C22: reset_new_password answers every request, in every state of the user
\* table, with 200, 400 or 404: it never ends in an unhandled error (500).
C22_ResetNewPasswordHandled ==
    last.op = "reset_new_password" => last.status \in {200, 400, 404}

\* C23: a successful toggle_pin(U, n) replaces note n by the same row with
\* pinned negated, answers with that new value and changes no other row; when
\* the request before it was a successful toggle_pin of the same note, the flag
\* is back at the value it had before the two.
C23_TogglePinFlips ==
    [][(last'.op = "toggle_pin" /\ last'.status = 200) =>
       \A u \in Authenticated, id \in ReqNoteIds :
          toggle_pin(u, id)
          => \E n \in notes :
                /\ n.id = id /\ n.user = u
                /\ notes' = (notes \ {n}) \cup {[n EXCEPT !.pinned = ~n.pinned]}
                /\ last'.out = {[n EXCEPT !.pinned = ~n.pinned]}
                /\ UNCHANGED <<users, categories, nextId>>
                /\ (last.op = "toggle_pin" /\ last.status = 200)
                   => \A r \in last.out, m \in notes' :
                         (r.id = id /\ m.id = id) => m.pinned = ~r.pinned]_vars

\* toggle_pin has answered with pinned = false for a note (every note of
\* NoteSpec is created unpinned and only toggle_pin changes the flag, so the
\* note has been toggled there and back) while another note stays pinned
C23_Witness ==
    /\ last.op = "toggle_pin" /\ last.status = 200
    /\ \E r \in last.out : ~r.pinned /\ r \in notes
    /\ \E n \in notes : n.pinned

\* the value a profile field has after a request that carries new under its
\* key: new when it is present and not empty, the old value otherwise
Updated(old, new) == IF new = Absent \/ new = Some(<<>>) THEN old ELSE Val(new)

\* C24: update_profile(U, fields) sets each of email, first_name and last_name
\* that is present and not empty to the given value, keeps each that is absent
\* or empty, keeps U's id, username and password, and changes no other user.
C24_UpdateProfilePartial ==
    [][last'.op = "update_profile" =>
       \A u \in Authenticated, e \in Opt(ProfileValues),
          f \in Opt(ProfileValues), l \in Opt(ProfileValues) :
          update_profile(u, e, f, l)
          => \E x \in users :
                /\ x.id = u
                /\ users' = (users \ {x})
                      \cup {[id |-> x.id, username |-> x.username,
                             password |-> x.password,
                             email |-> Updated(x.email, e),
                             first_name |-> Updated(x.first_name, f),
                             last_name |-> Updated(x.last_name, l)]}
                /\ UNCHANGED <<categories, notes, nextId>>]_vars

\* update_profile has answered and a user has a first name that only an update
\* sets beside the last name of registration, while the other user's record is
\* as registered
C24_Witness ==
    /\ last.op = "update_profile" /\ last.status = 200
    /\ \E x \in users, y \in users :
          /\ x.first_name = <<"b">> /\ x.last_name = <<"a">>
          /\ y.id # x.id /\ y.first_name = <<"a">> /\ y.email = y.username

\* C25: no completed write to a note is lost when requests interleave: the save
\* of a toggle_pin that answers 200 leaves the stored note as it was but for
\* its pinned flag, which it negates. So k toggle_pin requests flip the stored
\* flag k times and the fields an update_note has set stay as it set them.
C25_NoLostNoteWrite ==
    [][\A w \in Workers :
          (/\ slots[w].pc = "save"
           /\ slots[w].op = "toggle_pin"
           /\ last'.status = 200
           /\ note_save(w))
          => \A n \in notes :
                n.id = slots[w].row.id
                => [n EXCEPT !.pinned = ~n.pinned] \in notes']_vars

\* C26: a deleted note stays deleted: after delete_note or delete_category has
\* answered 200 for a note, no step puts a note with that id into the table,
\* also not the save of a toggle_pin or update_note that loaded the note before
\* it was deleted.
C26_DeletedStaysDeleted ==
    [][(last.op \in {"delete_note", "delete_category"} /\ last.status = 200)
       => \A r \in last.out, m \in notes' : m.id # r.id]_vars

\* C27: a create_note request that is not refused answers 201 and stores a note
\* whose font_size is 16 when the request has none, whose font_style is
\* "normal" when the request has none and whose pinned is false when the
\* request has none; no stored note has an absent font_size or font_style.
C27_CreateNoteDefaults ==
    [][/\ \A m \in notes' : m.font_size # Absent /\ m.font_style # Absent
       /\ (last'.op = "create_note" /\ last'.status # 400) =>
          \A u \in Authenticated, k \in ReqCategoryIds,
             pin \in {Absent, Some(TRUE)}, fs \in {Absent, Some(12)},
             fst \in {Absent, Some(<<"b">>)} :
             create_note(u, Some(TitleA), Some(<<"a">>), Some(k), pin, fs, fst)
             => /\ last'.status = 201
                /\ \A m \in notes' \ notes :
                      /\ fs = Absent => m.font_size = Some(DefaultFontSize)
                      /\ fst = Absent => m.font_style = Some(DefaultFontStyle)
                      /\ pin = Absent => ~m.pinned]_vars

\* the category and note tables are left as they are
TablesUnchanged == notes' = notes /\ categories' = categories

\* a create_note body of NoteSpec that misses title, content or category, or
\* whose category id is not that of a category of the caller
BadNoteRequest(u, t, c, cat) ==
    \/ t = Absent \/ c = Absent \/ cat = Absent
    \/ Val(t) = <<>>
    \/ ~\E k \in categories : k.id = Val(cat) /\ k.user = u

\* C13: create_note with title, content or category missing, or with a
\* category id that is unused or another user's, answers 400 (never 404) and
\* creates no note: a 400 leaves the tables as they are, and every request
\* answered otherwise carries the three fields and a category of the caller.
C13_CreateNoteRejects ==
    [][last'.op = "create_note" =>
       /\ last'.status \in {400, 201}
       /\ last'.status = 400 => TablesUnchanged
       /\ last'.status # 400 =>
          \A u \in Authenticated, t \in {Absent, Some(<<>>), Some(TitleA)},
             c \in {Absent, Some(<<"a">>)},
             cat \in {Absent, Some(0)} \cup {Some(k) : k \in ReqCategoryIds} :
             create_note(u, t, c, cat, Absent, Some(16), Some(<<"a">>))
             => ~BadNoteRequest(u, t, c, cat)]_vars

\* create_note answered 400 while each user has a category and notes exist:
\* the ids a request can name include another user's and an unused one
C13_Witness ==
    /\ last.op = "create_note" /\ last.status = 400
    /\ \A u \in Authenticated : \E k \in categories : k.user = u
    /\ notes # {}

\* C14: get_note, update_note, delete_note and toggle_pin, asked by U for a
\* note id that is unused or another user's, answer 404 and leave the note
\* table as it is.
C14_NoteNotFound ==
    [][last'.op \in {"get_note", "update_note", "delete_note", "toggle_pin"} =>
       \A u \in Authenticated, id \in ReqNoteIds :
          (/\ ~\E n \in notes : n.id = id /\ n.user = u
           /\ \/ get_note(u, id)
              \/ update_note(u, id, NotePayload(Some(TitleB), Absent, Absent,
                                                Absent, Absent, Absent))
              \/ delete_note(u, id)
              \/ toggle_pin(u, id))
          => last'.status = 404 /\ TablesUnchanged]_vars

\* delete_note answered 404 while both users have notes and no note id is
\* unused but the next one
C14_Witness ==
    /\ last.op = "delete_note" /\ last.status = 404
    /\ \A u \in Authenticated : \E n \in notes : n.user = u
    /\ Cardinality(notes) = nextId.note - 1

\* C15: edit_category(U, id, title) answers 404 when no user has a category
\* with that id and 403 when another user has it, and leaves the tables as
\* they are in both cases; the only change it makes is to the title of a
\* category of U.
C15_EditCategoryExistenceThenOwner ==
    [][last'.op = "edit_category" =>
       \A u \in Authenticated, id \in ReqCategoryIds,
          t \in {Absent, Some(TitleB)} :
          edit_category(u, id, t)
          => LET found == {c \in categories : c.id = id}
             IN /\ found = {} => last'.status = 404 /\ TablesUnchanged
                /\ (\E c \in found : c.user # u)
                   => last'.status = 403 /\ TablesUnchanged
                /\ notes' = notes
                /\ categories' # categories
                   => \E c \in found :
                         /\ c.user = u /\ last'.status = 200
                         /\ categories' = (categories \ {c})
                               \cup {[c EXCEPT !.title = Val(t)]}]_vars

\* edit_category answered 403: the id is that of another user's category
C15_Witness ==
    /\ last.op = "edit_category" /\ last.status = 403
    /\ categories # {}

\* C16: delete_category(U, id) answers 404, never 403, when the id is unused
\* and when it is another user's category, and deletes no category and no
\* note in both cases.
C16_DeleteCategoryNotFound ==
    [][last'.op = "delete_category" =>
       /\ last'.status # 403
       /\ \A u \in Authenticated, id \in ReqCategoryIds :
             (/\ ~\E c \in categories : c.id = id /\ c.user = u
              /\ delete_category(u, id))
             => last'.status = 404 /\ TablesUnchanged]_vars

\* delete_category answered 404 while both users have categories that hold
\* notes and no category id is unused but the next one
C16_Witness ==
    /\ last.op = "delete_category" /\ last.status = 404
    /\ \A u \in Authenticated :
          \E c \in categories : c.user = u /\ NotesOfCategory(notes, c.id) # {}
    /\ Cardinality(categories) = nextId.category - 1

\* C20: on the read path an id that is another user's and an id that is
\* unused are answered alike: get_note(U, id) and get_notes_by_category(U, id)
\* give one and the same response, 404 with no row, for every id that is not
\* U's, whether a row with that id exists or not; edit_category tells the two
\* apart, 403 for another user's category and 404 for an unused id.
C20_ReadsHideForeignRows ==
    [][\A u \in Authenticated :
          /\ last'.op = "get_note" =>
             \A id \in ReqNoteIds :
                (/\ ~\E n \in notes : n.id = id /\ n.user = u
                 /\ get_note(u, id))
                => last' = Response("get_note", 404, {})
          /\ last'.op = "get_notes_by_category" =>
             \A id \in ReqCategoryIds :
                (/\ ~\E c \in categories : c.id = id /\ c.user = u
                 /\ get_notes_by_category(u, id))
                => last' = Response("get_notes_by_category", 404, <<>>)
          /\ last'.op = "edit_category" =>
             \A id \in ReqCategoryIds, t \in {Absent, Some(TitleB)} :
                (/\ ~\E c \in categories : c.id = id /\ c.user = u
                 /\ edit_category(u, id, t))
                => IF \E c \in categories : c.id = id
                   THEN last' = Response("edit_category", 403, {})
                   ELSE last' = Response("edit_category", 404, {})]_vars

\* get_notes_by_category answered 404 while both users have categories that
\* hold notes and no category id is unused but the next one: the ids that
\* are not the caller's are of both kinds
C20_Witness ==
    /\ last = Response("get_notes_by_category", 404, <<>>)
    /\ \A u \in Authenticated :
          \E c \in categories : c.user = u /\ NotesOfCategory(notes, c.id) # {}
    /\ Cardinality(categories) = nextId.category - 1
====
